---- MODULE Spec2Model ----
(***************************************************************************)
(* Model of SkillScope (VIGGY2582/edtech_module1): the test-output parser  *)
(* of app.py, the question generator of modules/test_generator.py and the  *)
(* form scorer of app.py.  Python strings are TLA+ strings; a character is *)
(* a string of length 1 and s[i:j] is SubSeq(s, i+1, j).                    *)
(***************************************************************************)
EXTENDS Integers, Sequences, FiniteSets, TLC

VARIABLES
    pt_src,       \* how the text of the last parse_test_output call was built
    pt_text,      \* the text passed to the last parse_test_output call
    pt_result,    \* its outcome: [called, raised, questions]
    gt_in,        \* the skills of the last generate_test call and what the
                  \* Ollama service, the random module and the disk do in it
    gt_result,    \* its outcome: [called, skills, questions, requests, saved,
                  \* raised, text]
    world,        \* what the user enters in the form and what the disk, the
                  \* Ollama service and the random module do in a request
    test_state,   \* app.py: the module-level TestState object
    ui,           \* the form: the questions displayed with their choices,
                  \* and whether the submit button is visible
    response      \* what the last UI handler returned

vars == <<pt_src, pt_text, pt_result, gt_in, gt_result,
          world, test_state, ui, response>>

\* the variables of the parser calls, of the generator calls and of the app
pt_vars == <<pt_src, pt_text, pt_result>>

gt_vars == <<gt_in, gt_result>>

app_vars == <<world, test_state, ui, response>>

(***************************************************************************)
(* Python values                                                            *)
(***************************************************************************)
\* Python None, for a value that is otherwise Some(v)
None == <<>>

Some(v) == <<v>>

\* the value inside Some(v)
Val(o) == o[1]

(***************************************************************************)
(* str methods                                                              *)
(***************************************************************************)
UpperLetters == "ABCDEFGHIJKLMNOPQRSTUVWXYZ"

LowerLetters == "abcdefghijklmnopqrstuvwxyz"

\* s[i-1], the i-th character of s
Ch(s, i) == SubSeq(s, i, i)

\* s[i-1:], the suffix of s from its i-th character on
From(s, i) == SubSeq(s, i, Len(s))

\* p in s (substring test)
Contains(s, p) ==
    \E i \in 1..(Len(s) - Len(p) + 1) : SubSeq(s, i, i + Len(p) - 1) = p

\* s.startswith(p)
StartsWith(s, p) == Len(s) >= Len(p) /\ SubSeq(s, 1, Len(p)) = p

\* c.lower() and c.upper() for each letter c
LowerMap == [c \in {Ch(UpperLetters, i) : i \in 1..26} |->
                Ch(LowerLetters, CHOOSE i \in 1..26 : Ch(UpperLetters, i) = c)]

UpperMap == [c \in {Ch(LowerLetters, i) : i \in 1..26} |->
                Ch(UpperLetters, CHOOSE i \in 1..26 : Ch(LowerLetters, i) = c)]

\* c.lower() for one character
LowerCh(c) == IF c \in DOMAIN LowerMap THEN LowerMap[c] ELSE c

RECURSIVE Lower(_)
\* s.lower(), character by character (the string is halved to keep the
\* recursion shallow)
Lower(s) ==
    IF Len(s) <= 1 THEN LowerCh(s)
    ELSE Lower(SubSeq(s, 1, Len(s) \div 2)) \o Lower(From(s, Len(s) \div 2 + 1))

RECURSIVE Upper(_)
\* s.upper(), character by character
Upper(s) ==
    IF Len(s) <= 1 THEN (IF s \in DOMAIN UpperMap THEN UpperMap[s] ELSE s)
    ELSE Upper(SubSeq(s, 1, Len(s) \div 2)) \o Upper(From(s, Len(s) \div 2 + 1))

IsSpace(c) == c \in {" ", "\t", "\n", "\r"}

RECURSIVE FirstNonSpace(_, _)
\* the first position >= i of a character of s that is not whitespace,
\* Len(s) + 1 when there is none
FirstNonSpace(s, i) ==
    IF i > Len(s) \/ ~IsSpace(Ch(s, i)) THEN i ELSE FirstNonSpace(s, i + 1)

RECURSIVE LastNonSpace(_, _)
\* the last position <= i of a character of s that is not whitespace, 0
\* when there is none
LastNonSpace(s, i) ==
    IF i = 0 \/ ~IsSpace(Ch(s, i)) THEN i ELSE LastNonSpace(s, i - 1)

\* s.strip()
Strip(s) == SubSeq(s, FirstNonSpace(s, 1), LastNonSpace(s, Len(s)))

\* the first position >= i of the character sep in s, 0 when there is none
FirstSep(s, sep, i) ==
    IF \E p \in i..Len(s) : Ch(s, p) = sep
    THEN CHOOSE p \in i..Len(s) :
             Ch(s, p) = sep /\ \A q \in i..(p - 1) : Ch(s, q) # sep
    ELSE 0

RECURSIVE LastSep(_, _, _)
\* the last position <= i of the character sep in s, 0 when there is none
LastSep(s, sep, i) ==
    IF i = 0 \/ Ch(s, i) = sep THEN i ELSE LastSep(s, sep, i - 1)

\* s.split(sep, 1)[1], for s that contains sep
AfterFirst(s, sep) == From(s, FirstSep(s, sep, 1) + 1)

\* s.split(sep)[-1]
AfterLast(s, sep) == From(s, LastSep(s, sep, Len(s)) + 1)

RECURSIVE SplitFrom(_, _, _)
\* s[i-1:].split(sep)
SplitFrom(s, sep, i) ==
    LET p == FirstSep(s, sep, i)
    IN  IF p = 0 THEN <<From(s, i)>>
        ELSE <<SubSeq(s, i, p - 1)>> \o SplitFrom(s, sep, p + 1)

\* s.split(sep) for a one-character separator
Split(s, sep) == SplitFrom(s, sep, 1)

RECURSIVE Join(_, _)
\* sep.join(parts)
Join(parts, sep) ==
    IF parts = <<>> THEN ""
    ELSE IF Len(parts) = 1 THEN parts[1]
    ELSE parts[1] \o sep \o Join(Tail(parts), sep)

\* ord(c) - ord('a') for a lowercase letter c
LetterIndex(c) == (CHOOSE i \in 1..26 : Ch(LowerLetters, i) = c) - 1

\* chr(97 + i)
LetterOf(i) == Ch(LowerLetters, i + 1)

Digits == "0123456789"

RECURSIVE IntToStr(_)
\* str(n) for n >= 0
IntToStr(n) ==
    IF n < 10 THEN Ch(Digits, n + 1)
    ELSE IntToStr(n \div 10) \o Ch(Digits, (n % 10) + 1)

(***************************************************************************)
(* app.py: parse_test_output                                                *)
(***************************************************************************)
\* [line.strip() for line in test_text.split('\n') if line.strip()]
StrippedLines(test_text) ==
    LET raw == Split(test_text, "\n")
        stripped == [i \in 1..Len(raw) |-> Strip(raw[i])]
        NonEmpty(l) == l # ""
    IN  SelectSeq(stripped, NonEmpty)

\* line 63: the line opens a question
IsQuestionLine(line) == StartsWith(Lower(line), "question") /\ Contains(line, ":")

\* lines 79-82: the line is an answer option of the open question
IsOptionLine(st, line) ==
    /\ st.current_question # None
    /\ Len(line) > 2
    /\ Contains("abcd", LowerCh(Ch(line, 1)))
    /\ Contains(".)", Ch(line, 2))

\* lines 90-91: the line names the correct answer of the open question
IsCorrectLine(st, line) ==
    /\ st.current_question # None
    /\ Contains(Lower(line), "correct answer:")

\* lines 64-65: the question that was open is appended when it has options
FlushOnQuestion(st) ==
    IF st.current_question # None /\ Val(st.current_question).options # <<>>
    THEN Append(st.questions, Val(st.current_question))
    ELSE st.questions

\* lines 84-85: the option text is appended to the open question
AddOption(q, line) ==
    [q EXCEPT !.options = Append(@, Strip(From(line, 4)))]

\* CorrectLineEffect with the letter taken as a 1-based position ('a' -> 0)
CorrectLineEffect_OneBased(q, line) ==
    LET correct_letter == Lower(Strip(AfterLast(line, ":")))
    IN  IF correct_letter # "" /\ Contains("abcd", correct_letter)
        THEN IF Len(correct_letter) # 1
             THEN [raised |-> TRUE, q |-> q]
             ELSE LET answer_index == LetterIndex(correct_letter)
                  IN  IF 1 <= answer_index /\ answer_index <= Len(q.options)
                      THEN [raised |-> FALSE,
                            q |-> [q EXCEPT !.correct_answer =
                                               Some(q.options[answer_index])]]
                      ELSE [raised |-> FALSE, q |-> q]
        ELSE [raised |-> FALSE, q |-> q]

\* lines 94-98: the open question after a 'correct answer:' line; ord() of a
\* string that is not one character raises TypeError
CorrectLineEffect(q, line) ==
    LET correct_letter == Lower(Strip(AfterLast(line, ":")))
    IN  IF correct_letter # "" /\ Contains("abcd", correct_letter)
        THEN IF Len(correct_letter) # 1
             THEN [raised |-> TRUE, q |-> q]
             ELSE LET answer_index == LetterIndex(correct_letter)
                  IN  IF 0 <= answer_index /\ answer_index < Len(q.options)
                      THEN [raised |-> FALSE,
                            q |-> [q EXCEPT !.correct_answer =
                                               Some(q.options[answer_index + 1])]]
                      ELSE [raised |-> FALSE, q |-> q]
        ELSE [raised |-> FALSE, q |-> q]

\* lines 60-102: one iteration of the while loop
ParseLine(st, line) ==
    IF IsQuestionLine(line)
    THEN [st EXCEPT !.questions = FlushOnQuestion(st),
                    !.current_question =
                        Some([question |-> Strip(AfterFirst(line, ":")),
                              options |-> <<>>,
                              correct_answer |-> None])]
    ELSE IF IsOptionLine(st, line)
    THEN [st EXCEPT !.current_question = Some(AddOption(Val(@), line))]
    ELSE IF IsCorrectLine(st, line)
    THEN LET eff == CorrectLineEffect(Val(st.current_question), line)
         IN  [st EXCEPT !.current_question = Some(eff.q), !.raised = eff.raised]
    ELSE st

RECURSIVE ParseLoop(_, _, _)
\* lines 58-102: the while loop from line i on; an exception ends it
ParseLoop(st, lines, i) ==
    IF st.raised \/ i > Len(lines) THEN st
    ELSE ParseLoop(ParseLine(st, lines[i]), lines, i + 1)

\* Python truthiness of an optional string
Truthy(o) == o # None /\ Val(o) # ""

\* lines 104-106: the last question is appended when it has options and a
\* correct answer
FlushAtEnd(st) ==
    IF /\ st.current_question # None
       /\ Val(st.current_question).options # <<>>
       /\ Truthy(Val(st.current_question).correct_answer)
    THEN Append(st.questions, Val(st.current_question))
    ELSE st.questions

\* parse_test_output(test_text): raised, or the list of questions
parse_test_output(test_text) ==
    LET st == ParseLoop([questions |-> <<>>, current_question |-> None,
                         raised |-> FALSE],
                        StrippedLines(test_text), 1)
    IN  IF st.raised THEN [raised |-> TRUE, questions |-> <<>>]
        ELSE [raised |-> FALSE, questions |-> FlushAtEnd(st)]

(***************************************************************************)
(* modules/test_generator.py                                                *)
(***************************************************************************)
\* line 154: the line is an answer option
IsOllamaOption(line) ==
    /\ line # ""
    /\ Len(line) > 2
    /\ Contains("abcd", LowerCh(Ch(line, 1)))
    /\ Contains("):", Ch(line, 2))

\* lines 160-164: a 'correct answer:' line; ord() of a string that is not
\* one character raises TypeError
OllamaAnswerLine(st, line) ==
    LET answer_letter == Lower(Strip(AfterFirst(line, ":")))
    IN  IF Contains("abcd", answer_letter)
        THEN IF Len(answer_letter) # 1
             THEN [st EXCEPT !.raised = TRUE]
             ELSE IF LetterIndex(answer_letter) < Len(st.options)
                  THEN [st EXCEPT !.correct_answer = Some(answer_letter)]
                  ELSE st
        ELSE st

\* lines 147-164: one iteration of the loop over the response lines
OllamaLine(st, raw_line) ==
    LET line == Strip(raw_line)
    IN  IF StartsWith(Lower(line), "question:")
        THEN [st EXCEPT !.question_text = Strip(AfterFirst(line, ":"))]
        ELSE IF IsOllamaOption(line)
        THEN [st EXCEPT !.options = Append(@, Strip(From(line, 4)))]
        ELSE IF StartsWith(Lower(line), "correct answer:")
        THEN OllamaAnswerLine(st, line)
        ELSE st

RECURSIVE OllamaLoop(_, _, _)
\* lines 146-164: the loop from line i on; an exception ends it
OllamaLoop(st, lines, i) ==
    IF st.raised \/ i > Len(lines) THEN st
    ELSE OllamaLoop(OllamaLine(st, lines[i]), lines, i + 1)

\* parse_ollama_response accepting any number of options
parse_ollama_response_AnyOptions(response_text, skill) ==
    LET st == OllamaLoop([question_text |-> "", options |-> <<>>,
                          correct_answer |-> None, raised |-> FALSE],
                         Split(Strip(response_text), "\n"), 1)
    IN  IF /\ ~st.raised
           /\ st.question_text # ""
           /\ Truthy(st.correct_answer)
        THEN Some([question |-> st.question_text, options |-> st.options,
                   correct_answer |-> Val(st.correct_answer), skill |-> skill])
        ELSE None

\* parse_ollama_response(response_text, skill): None, or Some(question); an
\* exception inside is caught and gives None (lines 178-180)
parse_ollama_response(response_text, skill) ==
    LET st == OllamaLoop([question_text |-> "", options |-> <<>>,
                          correct_answer |-> None, raised |-> FALSE],
                         Split(Strip(response_text), "\n"), 1)
    IN  IF /\ ~st.raised
           /\ st.question_text # ""
           /\ Len(st.options) = 4
           /\ Truthy(st.correct_answer)
        THEN Some([question |-> st.question_text, options |-> st.options,
                   correct_answer |-> Val(st.correct_answer), skill |-> skill])
        ELSE None

\* lines 184-225: the question templates, as text before and after the
\* upper-cased skill, the options and the index of the correct option
NumTemplates == 4

TemplatePrefix ==
    <<"What is a primary use case for ",
      "Which of the following best describes ",
      "What is a key advantage of using ",
      "In which scenario would you typically use ">>

TemplateSuffix == <<" in modern software development?", "?", "?", "?">>

TemplateOptions ==
    <<<<"Building scalable applications", "Managing version control systems",
        "Debugging and testing code", "Deploying applications to production">>,
      <<"A tool for improving developer productivity",
        "A framework for building web applications",
        "A database management system", "An operating system component">>,
      <<"Improved code maintainability", "Better hardware performance",
        "Reduced network latency", "Enhanced graphic rendering">>,
      <<"When building modern software applications",
        "When designing hardware circuits", "When managing physical servers",
        "When creating design mockups">>>>

TemplateCorrect == <<0, 0, 0, 0>>

\* the outcomes of random.shuffle on a list of four: position i of the
\* shuffled list holds element perm[i] of the original
Shuffles == {perm \in [1..4 -> 1..4] : \A i, j \in 1..4 : perm[i] = perm[j] => i = j}

\* list.index(x): 0-based position of the first element equal to x
IndexOf(seq, x) ==
    (CHOOSE i \in 1..Len(seq) : seq[i] = x /\ \A j \in 1..(i - 1) : seq[j] # x) - 1

\* generate_fallback_question keeping the letter of the template's position
\* of the correct option instead of looking it up after the shuffle
generate_fallback_question_StaleLetter(skill, t, perm) ==
    [question |-> TemplatePrefix[t] \o Upper(skill) \o TemplateSuffix[t],
     options |-> [i \in 1..4 |-> TemplateOptions[t][perm[i]]],
     correct_answer |-> LetterOf(TemplateCorrect[t]),
     skill |-> skill]

\* generate_fallback_question(question_number, skill) when random.choice
\* picks template t and random.shuffle produces perm
generate_fallback_question(skill, t, perm) ==
    LET correct_answer_text == TemplateOptions[t][TemplateCorrect[t] + 1]
        shuffled == [i \in 1..4 |-> TemplateOptions[t][perm[i]]]
    IN  [question |-> TemplatePrefix[t] \o Upper(skill) \o TemplateSuffix[t],
         options |-> shuffled,
         correct_answer |-> LetterOf(IndexOf(shuffled, correct_answer_text)),
         skill |-> skill]

\* the ways requests.post(...) and response.json() can end (lines 103-136)
FailureKinds == {"connection_error", "timeout", "http_error", "exception"}

\* generate_question_with_ollama returning what was parsed of a rejected
\* response instead of the fallback question
generate_question_with_ollama_NoFallback(call, skill, t, perm) ==
    IF call.kind = "ok"
    THEN LET parsed_question == parse_ollama_response(Strip(call.text), skill)
         IN  IF parsed_question # None THEN Val(parsed_question)
             ELSE [question |-> "", options |-> <<>>, correct_answer |-> "",
                   skill |-> skill]
    ELSE generate_fallback_question(skill, t, perm)

\* generate_question_with_ollama(question_number, skill, domain) when the
\* request ends as call and the random module gives template t and perm
generate_question_with_ollama(call, skill, t, perm) ==
    IF call.kind = "ok"
    THEN LET parsed_question == parse_ollama_response(Strip(call.text), skill)
         IN  IF parsed_question # None THEN Val(parsed_question)
             ELSE generate_fallback_question(skill, t, perm)
    ELSE generate_fallback_question(skill, t, perm)

\* lines 298-322: the question built for the i-th skill; env gives the
\* result of check_ollama_status, of each request and of the random module
QuestionFor(skills, env, i) ==
    IF env.available
    THEN generate_question_with_ollama(env.calls[i], skills[i],
                                       env.rnd[i].template, env.rnd[i].perm)
    ELSE generate_fallback_question(skills[i], env.rnd[i].template, env.rnd[i].perm)

RECURSIVE OptionLines(_, _)
\* lines 340-341: the lines 'a) t1', 'b) t2', ... of the options from the
\* i-th on, each ended by a newline
OptionLines(opts, i) ==
    IF i > Len(opts) THEN ""
    ELSE LetterOf(i - 1) \o ") " \o opts[i] \o "\n" \o OptionLines(opts, i + 1)

\* lines 338-343: one question formatted for display
FormatQuestion(i, q) ==
    "Question " \o IntToStr(i) \o ": " \o q.question \o "\n"
        \o OptionLines(q.options, 1)
        \o "Correct Answer: " \o q.correct_answer \o "\n"

\* line 275; the leading cross mark of the message is written [x]
NoSkillsMessage == "[x] Error: No skills found. Please extract skills first."

\* line 325
NoQuestionsMessage == "[x] Error: Failed to generate any questions."

\* BuildQuestions skipping a skill whose generation request failed
BuildQuestions_SkipFailed(skills, env) ==
    LET all == [i \in 1..Len(skills) |->
                   [q |-> QuestionFor(skills, env, i),
                    keep |-> env.available => env.calls[i].kind = "ok"]]
        Kept(e) == e.keep
        kept == SelectSeq(all, Kept)
    IN  [i \in 1..Len(kept) |-> kept[i].q]

\* lines 282-322: the list of questions after the loop over the skills;
\* every branch of the loop body appends one question
BuildQuestions(skills, env) ==
    [i \in 1..Len(skills) |-> QuestionFor(skills, env, i)]

\* generate_test letting the exception of save_test_data leave it instead
\* of catching it at lines 329-334
generate_test_SaveRequired(skills, env) ==
    LET effective == IF skills # <<>> THEN skills ELSE env.normalized_file
        questions == BuildQuestions(effective, env)
    IN  IF effective = <<>>
        THEN [skills |-> effective, questions |-> <<>>, requests |-> <<>>,
              saved |-> FALSE, raised |-> FALSE, text |-> NoSkillsMessage]
        ELSE IF ~env.save_ok
        THEN [skills |-> effective, questions |-> questions,
              requests |-> [i \in 1..Len(effective) |->
                               IF env.available THEN 1 ELSE 0],
              saved |-> FALSE, raised |-> TRUE, text |-> ""]
        ELSE [skills |-> effective,
              questions |-> questions,
              requests |-> [i \in 1..Len(effective) |->
                               IF env.available THEN 1 ELSE 0],
              saved |-> TRUE,
              raised |-> FALSE,
              text |-> Join([i \in 1..Len(questions) |->
                                FormatQuestion(i, questions[i])], "\n")]

\* generate_test(skills, domain): the skills it iterates, the questions it
\* builds, the generation requests it sends per skill, whether test.json was
\* written, and the text it returns
generate_test(skills, env) ==
    LET effective == IF skills # <<>> THEN skills ELSE env.normalized_file
        questions == BuildQuestions(effective, env)
    IN  IF effective = <<>>
        THEN [skills |-> effective, questions |-> <<>>, requests |-> <<>>,
              saved |-> FALSE, raised |-> FALSE, text |-> NoSkillsMessage]
        ELSE IF questions = <<>>
        THEN [skills |-> effective, questions |-> <<>>,
              requests |-> [i \in 1..Len(effective) |->
                               IF env.available THEN 1 ELSE 0],
              saved |-> FALSE, raised |-> FALSE, text |-> NoQuestionsMessage]
        ELSE [skills |-> effective,
              questions |-> questions,
              requests |-> [i \in 1..Len(effective) |->
                               IF env.available THEN 1 ELSE 0],
              saved |-> env.save_ok,
              raised |-> FALSE,
              text |-> Join([i \in 1..Len(questions) |->
                                FormatQuestion(i, questions[i])], "\n")]

(***************************************************************************)
(* modules/input_handler.py, app.py: the form handlers                      *)
(***************************************************************************)
\* app.py lines 16-24: the TestState object after construction;
\* element_type is the Python type of the elements of questions: str when
\* process_inputs stored them (line 160), dict when start_terminal_test did
\* (line 284)
NewTestState ==
    [questions |-> <<>>, correct_answers |-> <<>>, user_answers |-> <<>>,
     current_question |-> 0, score |-> 0, element_type |-> "none"]

\* app.py lines 53, 180: the form has ten question slots
NumSlots == 10

\* the form before the first request: no question shown, no submit button
EmptyForm == [questions |-> <<>>, submit_visible |-> FALSE]

RECURSIVE Dedupe(_)
\* the elements of seq in order of first occurrence
Dedupe(seq) ==
    IF seq = <<>> THEN <<>>
    ELSE LET front == Dedupe(SubSeq(seq, 1, Len(seq) - 1))
             last == seq[Len(seq)]
         IN  IF \E i \in 1..Len(front) : front[i] = last THEN front
             ELSE Append(front, last)

\* the set of the elements of seq
Range(seq) == {seq[i] : i \in 1..Len(seq)}

\* input_handler.py lines 93-98: parse_manual_skills(text)
parse_manual_skills(text) ==
    IF text = "" THEN <<>>
    ELSE LET parts == Split(text, ",")
             stripped == [i \in 1..Len(parts) |-> Strip(parts[i])]
             NonEmpty(x) == x # ""
         IN  SelectSeq(stripped, NonEmpty)

\* input_handler.py lines 133-156: InputHandler.process_inputs; all_skills is
\* a set, and list(all_skills) enumerates its elements in the order w.order,
\* a permutation of their positions of first entry
HandlerProcessInputs(w) ==
    LET entered == Dedupe(w.resume_skills \o w.json_skills
                              \o parse_manual_skills(w.manual_skills))
    IN  [success |-> w.fs.user_skills,
         skills |-> [i \in 1..Len(entered) |-> entered[w.order[i]]]]

\* app.py lines 26-47: save_normalized_skills(skills); a failed write is
\* caught and gives the empty list
save_normalized_skills(skills, w) ==
    LET stripped == [i \in 1..Len(skills) |-> Strip(skills[i])]
        NonEmpty(x) == x # ""
        kept == SelectSeq(stripped, NonEmpty)
        normalized_skills == [i \in 1..Len(kept) |-> Lower(kept[i])]
    IN  IF w.fs.normalized THEN Dedupe(normalized_skills) ELSE <<>>

\* the response of process_inputs that shows message kind and hides the rest
\* of the form (lines 121-123, 131-133, 147-149, 155-157, 229-231)
ErrorResponse(kind, ts) ==
    [test_state |-> ts,
     ui |-> EmptyForm,
     response |-> [handler |-> "process_inputs", kind |-> kind]]

\* app.py lines 159-223: the test state and the form after a successful parse
ShowTest(test_questions, ts) ==
    [test_state |->
         [ts EXCEPT !.questions = [i \in 1..Len(test_questions) |->
                                      test_questions[i].question],
                    !.element_type = "str",
                    !.correct_answers = [i \in 1..Len(test_questions) |->
                                            test_questions[i].correct_answer],
                    !.user_answers = [i \in 1..Len(test_questions) |-> None]],
     ui |-> [questions |->
                 [i \in 1..(IF Len(test_questions) < NumSlots
                            THEN Len(test_questions) ELSE NumSlots) |->
                     [question |-> test_questions[i].question,
                      options |-> test_questions[i].options]],
             submit_visible |-> TRUE],
     response |-> [handler |-> "process_inputs", kind |-> "generated"]]

\* app.py lines 143-157: generate the test, refuse a text that contains
\* 'error', parse it, refuse an empty list of questions
GenerateAndParse(normalized_skills, w, ts) ==
    LET test_text == generate_test(normalized_skills, w.gen).text
        parsed == parse_test_output(test_text)
    IN  IF test_text = "" \/ Contains(Lower(test_text), "error")
        THEN ErrorResponse("error_generating", ts)
        ELSE IF parsed.raised THEN ErrorResponse("exception", ts)
        ELSE IF parsed.questions = <<>> THEN ErrorResponse("no_valid_questions", ts)
        ELSE ShowTest(parsed.questions, ts)

\* app.py lines 110-231: process_inputs(resume_file, skills_json_file,
\* manual_skills) in world w with test state ts; save_profile_summary
\* (line 141) raises when its file cannot be written
process_inputs(w, ts) ==
    LET result == HandlerProcessInputs(w)
        normalized_skills == save_normalized_skills(result.skills, w)
    IN  IF ~result.success \/ result.skills = <<>>
        THEN ErrorResponse("no_skills", ts)
        ELSE IF normalized_skills = <<>>
        THEN ErrorResponse("normalize_failed", ts)
        ELSE IF ~w.fs.profile
        THEN ErrorResponse("exception", ts)
        ELSE GenerateAndParse(normalized_skills, w, ts)

\* lines 239-248: the first n result entries; zip stops at the shorter of
\* the answers and the correct answers
ScoreResults(user_answers, ts, n) ==
    [i \in 1..n |->
        [question |-> ts.questions[i],
         user_answer |-> user_answers[i],
         correct_answer |-> ts.correct_answers[i],
         is_correct |-> user_answers[i] = ts.correct_answers[i]]]

\* app.py lines 233-268: calculate_score(*user_answers) with test state ts;
\* an exception (a question index out of range) gives the error message
calculate_score(user_answers, ts) ==
    LET n == IF Len(user_answers) < Len(ts.correct_answers)
             THEN Len(user_answers) ELSE Len(ts.correct_answers)
        results == ScoreResults(user_answers, ts, n)
        Correct(r) == r.is_correct
        score == Len(SelectSeq(results, Correct))
        total == Len(ts.questions)
    IN  IF n > Len(ts.questions)
        THEN [handler |-> "calculate_score", kind |-> "error"]
        ELSE [handler |-> "calculate_score", kind |-> "score",
              score |-> score, total |-> total,
              percentage |-> IF total > 0 THEN [num |-> score * 100, den |-> total]
                             ELSE [num |-> 0, den |-> 1],
              results |-> results]

(***************************************************************************)
(* rapidfuzz: fuzz.partial_ratio and process.extractOne                     *)
(***************************************************************************)
RECURSIVE LcsLen(_, _)
\* the length of a longest common subsequence of a and b
LcsLen(a, b) ==
    IF a = "" \/ b = "" THEN 0
    ELSE IF Ch(a, Len(a)) = Ch(b, Len(b))
    THEN 1 + LcsLen(SubSeq(a, 1, Len(a) - 1), SubSeq(b, 1, Len(b) - 1))
    ELSE LET x == LcsLen(SubSeq(a, 1, Len(a) - 1), b)
             y == LcsLen(a, SubSeq(b, 1, Len(b) - 1))
         IN  IF x >= y THEN x ELSE y

\* a score is the fraction num / den of 100: [num |-> 0, den |-> 1] is the
\* score 0 and [num |-> 1, den |-> 1] the score 100
ScoreGreater(a, b) == a.num * b.den > b.num * a.den

\* score >= threshold for a threshold on the scale 0..100
ScoreAtLeast(a, threshold) == 100 * a.num >= threshold * a.den

\* the normalized Indel similarity of a and b: 2 * LCS / (len(a) + len(b))
IndelSimilarity(a, b) ==
    IF a = "" /\ b = "" THEN [num |-> 1, den |-> 1]
    ELSE [num |-> 2 * LcsLen(a, b), den |-> Len(a) + Len(b)]

\* the windows of the longer string that partial_ratio aligns the shorter
\* string s1 with: the prefixes shorter than s1, the windows as long as s1
\* and the suffixes not longer than s1, each kept only if the character at
\* its sliding end occurs in s1
PartialWindows(s1, s2) ==
    LET chars == {Ch(s1, i) : i \in 1..Len(s1)}
    IN  {SubSeq(s2, 1, i) : i \in {j \in 1..(Len(s1) - 1) : Ch(s2, j) \in chars}}
        \cup {SubSeq(s2, i + 1, i + Len(s1)) :
                 i \in {j \in 0..(Len(s2) - Len(s1) - 1) :
                           Ch(s2, j + Len(s1)) \in chars}}
        \cup {SubSeq(s2, i + 1, Len(s2)) :
                 i \in {j \in (Len(s2) - Len(s1))..(Len(s2) - 1) :
                           Ch(s2, j + 1) \in chars}}

\* the largest of a non-empty set of scores, zero for the empty set
BestScore(scores) ==
    IF scores = {} THEN [num |-> 0, den |-> 1]
    ELSE CHOOSE a \in scores : \A b \in scores : ~ScoreGreater(b, a)

\* the best similarity of s1 with a window of s2, for Len(s1) <= Len(s2)
PartialRatioImpl(s1, s2) ==
    BestScore({IndelSimilarity(s1, w) : w \in PartialWindows(s1, s2)})

\* fuzz.partial_ratio(s1, s2)
partial_ratio(s1, s2) ==
    IF s1 = "" /\ s2 = "" THEN [num |-> 1, den |-> 1]
    ELSE IF s1 = "" \/ s2 = "" THEN [num |-> 0, den |-> 1]
    ELSE IF Len(s1) < Len(s2) THEN PartialRatioImpl(s1, s2)
    ELSE IF Len(s2) < Len(s1) THEN PartialRatioImpl(s2, s1)
    ELSE BestScore({PartialRatioImpl(s1, s2), PartialRatioImpl(s2, s1)})

\* process.extractOne(query, choices, scorer=fuzz.partial_ratio,
\* score_cutoff=cutoff): None, or the first choice of the best score with
\* its score and position, when that score reaches the cutoff
extractOne(query, choices, cutoff) ==
    LET scores == [i \in 1..Len(choices) |-> partial_ratio(query, choices[i])]
        best == {i \in 1..Len(choices) :
                    /\ ScoreAtLeast(scores[i], cutoff)
                    /\ \A j \in 1..Len(choices) :
                           /\ ~ScoreGreater(scores[j], scores[i])
                           /\ j < i => ScoreGreater(scores[i], scores[j])}
    IN  IF best = {} THEN None
        ELSE Some([match |-> choices[CHOOSE i \in best : TRUE],
                   score |-> scores[CHOOSE i \in best : TRUE],
                   index |-> (CHOOSE i \in best : TRUE) - 1])

(***************************************************************************)
(* modules/skill_normalizer.py                                              *)
(***************************************************************************)
RECURSIVE StrLess(_, _)
\* a < b for two str values; CodePointOrder lists the characters of skill
\* names in ascending order of code point, Ord(c) is the rank of c in it
StrLess(a, b) ==
    LET CodePointOrder ==
            " #+.0123456789ABCDEFGHIJKLMNOPQRSTUVWXYZabcdefghijklmnopqrstuvwxyz"
        Ord(c) == CHOOSE i \in 1..Len(CodePointOrder) : Ch(CodePointOrder, i) = c
    IN  IF b = "" THEN FALSE
        ELSE IF a = "" THEN TRUE
        ELSE IF Ch(a, 1) # Ch(b, 1) THEN Ord(Ch(a, 1)) < Ord(Ch(b, 1))
        ELSE StrLess(From(a, 2), From(b, 2))

RECURSIVE Sorted(_)
\* sorted(list(names)) for a set of str
Sorted(names) ==
    IF names = {} THEN <<>>
    ELSE <<CHOOSE a \in names : \A b \in names \ {a} : StrLess(a, b)>>
             \o Sorted(names \ {CHOOSE a \in names :
                                    \A b \in names \ {a} : StrLess(a, b)})

\* lines 16-25: the alias dictionary
ALIASES ==
    [py |-> "Python", python3 |-> "Python", python2 |-> "Python",
     reactjs |-> "React", js |-> "JavaScript", node |-> "Node.js",
     ml |-> "Machine Learning", ai |-> "Artificial Intelligence"]

\* lines 44-54: the fuzzy match of one token; unpacking the None that
\* extractOne returns for an empty list of choices raises TypeError; the
\* name emitted is the first master skill whose lowercase form is the match
\* (lines 50-54)
FuzzyStep(st, found, master_skills, threshold) ==
    LET FirstSpelling(match) ==
            master_skills[CHOOSE i \in 1..Len(master_skills) :
                              /\ Lower(master_skills[i]) = match
                              /\ \A j \in 1..(i - 1) :
                                     Lower(master_skills[j]) # match]
    IN  IF found = None
        THEN [st EXCEPT !.raised = "TypeError",
                        !.fuzzy_calls = Append(@, 1)]
        ELSE IF ScoreAtLeast(Val(found).score, threshold)
        THEN [st EXCEPT !.emitted = Append(@, FirstSpelling(Val(found).match)),
                        !.fuzzy_calls = Append(@, 1)]
        ELSE [st EXCEPT !.fuzzy_calls = Append(@, 1)]

\* lines 36-54: one iteration of the loop over the raw skills
NormalizeStep(st, skill, master_skills, threshold) ==
    IF st.raised # "" THEN st
    ELSE IF Lower(skill) \in DOMAIN ALIASES
    THEN [st EXCEPT !.emitted = Append(@, ALIASES[Lower(skill)]),
                    !.fuzzy_calls = Append(@, 0)]
    ELSE FuzzyStep(st,
                   extractOne(Lower(skill),
                              [i \in 1..Len(master_skills) |->
                                  Lower(master_skills[i])], 0),
                   master_skills, threshold)

RECURSIVE NormalizeLoop(_, _, _, _)
\* lines 29-54: the loop state after the first n raw skills: the names
\* emitted so far in order of emission, the exception raised, the number of
\* extractOne calls made for each token
NormalizeLoop(raw_skills, master_skills, threshold, n) ==
    IF n = 0 THEN [emitted |-> <<>>, raised |-> "", fuzzy_calls |-> <<>>]
    ELSE NormalizeStep(NormalizeLoop(raw_skills, master_skills, threshold, n - 1),
                       raw_skills[n], master_skills, threshold)

\* what normalize_skills returns after the loop (line 56)
NormalizeReturn(st) ==
    [raised |-> st.raised,
     skills |-> IF st.raised = "" THEN Sorted(Range(st.emitted)) ELSE <<>>,
     emitted |-> st.emitted,
     fuzzy_calls |-> st.fuzzy_calls]

\* skill_normalizer.py lines 29-56: normalize_skills(threshold) when
\* user_skills.json holds raw_skills and skills_master.json holds master
\* (None: the file cannot be read, load_master_skills raises)
normalize_skills(raw_skills, master, threshold) ==
    IF master = None
    THEN [raised |-> "FileNotFoundError", skills |-> <<>>, emitted |-> <<>>,
          fuzzy_calls |-> <<>>]
    ELSE NormalizeReturn(
             NormalizeLoop(raw_skills, Val(master), threshold, Len(raw_skills)))

(***************************************************************************)
(* modules/input_handler.py: skills of a resume                             *)
(***************************************************************************)
\* extract_skills_from_text scoring the skill against the whole text
\* (fuzz.ratio) instead of its best window
extract_skills_from_text_WholeText(text, skills) ==
    IF text = "" \/ skills = <<>> THEN {}
    ELSE {skills[i] : i \in
             {j \in 1..Len(skills) :
                 ScoreAtLeast(IndelSimilarity(Lower(skills[j]), Lower(text)), 85)}}

\* input_handler.py lines 45-62: extract_skills_from_text(text) for the
\* master skills self.skills; the result is list(found_skills), a list of
\* the elements of this set in no particular order
extract_skills_from_text(text, skills) ==
    IF text = "" \/ skills = <<>> THEN {}
    ELSE {skills[i] : i \in
             {j \in 1..Len(skills) :
                 /\ extractOne(Lower(skills[j]), <<Lower(text)>>, 85) # None
                 /\ ScoreAtLeast(
                        Val(extractOne(Lower(skills[j]), <<Lower(text)>>, 85)).score,
                        85)}}

\* process_resume reporting every master skill for a resume without text
process_resume_FailedMatchesAll(resume, skills) ==
    IF resume = None THEN {}
    ELSE IF Val(resume).ext \in {".pdf", ".docx", ".doc"} /\ Val(resume).text # ""
    THEN extract_skills_from_text(Val(resume).text, skills)
    ELSE Range(skills)

\* input_handler.py lines 64-77: process_resume(file_path); a resume is
\* None (no file) or its extension and the text its extractor returns (the
\* empty string when the extraction failed)
process_resume(resume, skills) ==
    IF resume = None THEN {}
    ELSE IF Val(resume).ext \in {".pdf", ".docx", ".doc"}
    THEN extract_skills_from_text(Val(resume).text, skills)
    ELSE extract_skills_from_text("", skills)

(***************************************************************************)
(* app.py: the terminal-style test                                          *)
(***************************************************************************)
\* what a terminal handler leaves when an exception leaves it: the test
\* state as it was when the exception was raised, and no response value
TerminalRaised(handler, exception, ts) ==
    [test_state |-> ts,
     response |-> [handler |-> handler, kind |-> "raised",
                   exception |-> exception]]

\* app.py lines 336-370: show_results(); line 339 divides by the number of
\* questions; the details (lines 357-364) have one entry per pair of
\* zip(test_state.questions, test_state.user_answers)
show_results(handler, ts) ==
    IF Len(ts.questions) = 0
    THEN TerminalRaised(handler, "ZeroDivisionError", ts)
    ELSE [test_state |-> ts,
          response |-> [handler |-> handler, kind |-> "results",
                        score |-> ts.score, total |-> Len(ts.questions),
                        percentage |-> [num |-> ts.score * 100,
                                        den |-> Len(ts.questions)],
                        details |->
                            [i \in 1..(IF Len(ts.user_answers) < Len(ts.questions)
                                       THEN Len(ts.user_answers)
                                       ELSE Len(ts.questions)) |->
                                [question |-> ts.questions[i].question,
                                 user_answer |-> ts.user_answers[i],
                                 correct_answer |->
                                     ts.questions[i].correct_answer,
                                 is_correct |->
                                     ts.user_answers[i]
                                         = ts.questions[i].correct_answer]],
                        input_visible |-> FALSE]]

\* app.py lines 293-305: show_question(q_index), q_index counted from 0
show_question(handler, q_index, ts) ==
    IF q_index >= Len(ts.questions) THEN show_results(handler, ts)
    ELSE [test_state |-> ts,
          response |-> [handler |-> handler, kind |-> "question",
                        number |-> q_index + 1, total |-> Len(ts.questions),
                        question |-> ts.questions[q_index + 1].question,
                        options |-> ts.questions[q_index + 1].options,
                        input_visible |-> TRUE]]

\* lines 272-274: the skills a terminal test is generated for; line 274
\* gives the skills of a test started without skills
TerminalSkills(skills_input) ==
    IF parse_manual_skills(skills_input) = <<>>
    THEN <<"Python", "Git", "SQL", "JavaScript", "Docker">>
    ELSE parse_manual_skills(skills_input)

\* lines 278-291: what start_terminal_test does with the generated text
StartFromText(test_text, ts) ==
    \* the parse result is bound once
    CHOOSE r \in
        {IF parsed.raised
         THEN TerminalRaised("start_terminal_test", "TypeError", ts)
         ELSE IF parsed.questions = <<>>
         THEN [test_state |-> ts,
               response |-> [handler |-> "start_terminal_test",
                             kind |-> "failed", input_visible |-> FALSE]]
         ELSE show_question(
                  "start_terminal_test", 0,
                  [ts EXCEPT !.questions = parsed.questions,
                             !.element_type = "dict",
                             !.current_question = 0,
                             !.score = 0,
                             !.user_answers = <<>>,
                             !.correct_answers =
                                 [i \in 1..Len(parsed.questions) |->
                                     parsed.questions[i].correct_answer]]) :
            parsed \in {parse_test_output(test_text)}} : TRUE

\* app.py lines 270-291: start_terminal_test(skills_input) with generator
\* environment env and test state ts
start_terminal_test(skills_input, env, ts) ==
    StartFromText(generate_test(TerminalSkills(skills_input), env).text, ts)

\* AnswerQuestion adding one to the score for every answer
AnswerQuestion_CountsEveryAnswer(letter, q, ts) ==
    IF LetterIndex(letter) >= Len(q.options)
    THEN TerminalRaised("process_terminal_answer", "IndexError", ts)
    ELSE show_question(
             "process_terminal_answer", ts.current_question + 1,
             [ts EXCEPT !.user_answers =
                            Append(@, Some(q.options[LetterIndex(letter) + 1])),
                        !.score = @ + 1,
                        !.current_question = @ + 1])

\* lines 318-331: a valid answer letter on question q
AnswerQuestion(letter, q, ts) ==
    IF LetterIndex(letter) >= Len(q.options)
    THEN TerminalRaised("process_terminal_answer", "IndexError", ts)
    ELSE show_question(
             "process_terminal_answer", ts.current_question + 1,
             [ts EXCEPT !.user_answers =
                            Append(@, Some(q.options[LetterIndex(letter) + 1])),
                        !.score =
                            IF Some(q.options[LetterIndex(letter) + 1])
                                   = q.correct_answer
                            THEN @ + 1 ELSE @,
                        !.current_question = @ + 1])

\* process_terminal_answer recording an invalid answer as an unanswered
\* question and moving on
process_terminal_answer_InvalidSkips(answer, ts) ==
    IF ts.current_question >= Len(ts.questions)
    THEN TerminalRaised("process_terminal_answer", "IndexError", ts)
    ELSE IF Lower(Strip(answer)) \in {"a", "b", "c", "d"}
    THEN IF ts.element_type = "str"
         THEN TerminalRaised("process_terminal_answer", "TypeError", ts)
         ELSE AnswerQuestion(Lower(Strip(answer)),
                             ts.questions[ts.current_question + 1], ts)
    ELSE [test_state |-> [ts EXCEPT !.user_answers = Append(@, None),
                                    !.current_question = @ + 1],
          response |-> [handler |-> "process_terminal_answer",
                        kind |-> "invalid", input_visible |-> TRUE]]

\* app.py lines 307-334: process_terminal_answer(answer, current_output);
\* test_state always has the attribute current_question (line 309), and
\* line 313 indexes the questions with it; q['options'] (line 318) raises
\* TypeError when q is a string
process_terminal_answer(answer, ts) ==
    IF ts.current_question >= Len(ts.questions)
    THEN TerminalRaised("process_terminal_answer", "IndexError", ts)
    ELSE IF Lower(Strip(answer)) \in {"a", "b", "c", "d"}
    THEN IF ts.element_type = "str"
         THEN TerminalRaised("process_terminal_answer", "TypeError", ts)
         ELSE AnswerQuestion(Lower(Strip(answer)),
                             ts.questions[ts.current_question + 1], ts)
    ELSE [test_state |-> ts,
          response |-> [handler |-> "process_terminal_answer",
                        kind |-> "invalid", input_visible |-> TRUE]]

\* the app has not handled a request
AppIdle ==
    /\ world = [kind |-> "none"]
    /\ test_state = NewTestState
    /\ ui = EmptyForm
    /\ response = [handler |-> "none", kind |-> "none"]

(***************************************************************************)
(* What the Ollama service and the random module can do in one call         *)
(***************************************************************************)
\* texts the Ollama service answers with: a question in the requested
\* format, one with three options, one with a two-letter answer, one with
\* ':' after the option letters, one whose first option has no text after
\* the 3-character marker, one that mentions an error
Responses ==
    [good   |-> "Question: What does X do?\na) one\nb) two\nc) three\nd) four\nCorrect Answer: c\n",
     three  |-> "Question: What does X do?\na) one\nb) two\nc) three\nCorrect Answer: a",
     twolet |-> "Question: What does X do?\na) one\nb) two\nc) three\nd) four\nCorrect Answer: ab",
     colon  |-> "  question: Which one?\nA: one\nB: two\nC: three\nD: four\nCorrect answer: D",
     blank  |-> "Question: What is 2+2?\na)3\nb) five\nc) six\nd) four\nCorrect Answer: d",
     error  |-> "Question: Which error does X raise?\na) one\nb) two\nc) three\nd) four\nCorrect Answer: a"]

\* the outcomes of one generation request: a failure of one of the kinds,
\* or status 200 with one of the responses as text
CallOutcomes(kinds, responses) ==
    {[kind |-> k, text |-> ""] : k \in kinds}
        \cup {[kind |-> "ok", text |-> Responses[r]] : r \in responses}

\* four of the 24 outcomes of random.shuffle; they leave the first element
\* at position a, d, b and c
ShuffleSamples ==
    <<<<1, 2, 3, 4>>, <<4, 3, 2, 1>>, <<2, 1, 4, 3>>, <<3, 4, 1, 2>>>>

\* a sequence of n outcomes of (random.choice, random.shuffle): the k-th
\* fallback question uses template and shuffle number t0 + k - 1 (cyclically)
RandomStream(t0, n) ==
    [k \in 1..n |->
        [template |-> ((t0 + k - 2) % NumTemplates) + 1,
         perm |-> ShuffleSamples[((t0 + k - 2) % Len(ShuffleSamples)) + 1]]]

\* the worlds of a generate_test call over n skills: Ollama down, or up with
\* one of the given request outcomes per skill; any random stream; test.json
\* writable or not; any of the given contents of normalized_skills.json
GenEnvs(n, callseqs, saves, files) ==
    {[available |-> FALSE, calls |-> [i \in 1..n |-> [kind |-> "none", text |-> ""]],
      rnd |-> RandomStream(t0, n), save_ok |-> ok, normalized_file |-> f] :
        t0 \in 1..NumTemplates, ok \in saves, f \in files}
    \cup
    {[available |-> TRUE, calls |-> calls,
      rnd |-> RandomStream(t0, n), save_ok |-> ok, normalized_file |-> f] :
        calls \in callseqs, t0 \in 1..NumTemplates, ok \in saves, f \in files}

(***************************************************************************)
(* Calls of parse_test_output on bounded texts                             *)
(***************************************************************************)
\* longest text, in lines, built freely from LinePool
MaxLines == 3

\* longest text, in blocks, built from BlockPool
MaxBlocks == 3

\* question texts of the well-formed blocks
QuestionTexts == {"What is X?", "Which: a) or b)?"}

\* option texts of the well-formed blocks
OptionTexts == {"opt1", "opt2", "x", "Correct answer: b"}

\* correct-answer letters of the well-formed blocks, with the option each names
LetterPosition == [a |-> 1, b |-> 2, c |-> 3, d |-> 4, A |-> 1, D |-> 4]

\* the texts of up to MaxLines lines of LinePool, the lines a generated
\* test can hold, well-formed and malformed
FreeInputs ==
    LET LinePool ==
            {"Question 1: X", "a) opt1", "a)opt1", "b) opt2", "c) opt3*",
             "Correct Answer: a", "Correct Answer: B", "Correct Answer: d",
             "Correct Answer: ab", "Correct Answer:"}
    IN  UNION {{[kind |-> "free", lines |-> ls, text |-> Join(ls, "\n")] :
                   ls \in [1..n -> LinePool]} : n \in 0..MaxLines}

\* the texts that are one well-formed block: a 'Question N:' line, four
\* option lines, a 'Correct Answer:' line
BlockInputs ==
    {[kind |-> "block", question |-> qtext, options |-> opts, letter |-> letter,
      text |-> "Question " \o IntToStr(n) \o ": " \o qtext \o "\n"
                   \o OptionLines(opts, 1)
                   \o "Correct Answer: " \o letter \o "\n"] :
        n \in {1, 12}, qtext \in QuestionTexts,
        opts \in [1..4 -> OptionTexts], letter \in DOMAIN LetterPosition}

\* the texts that are one block without a 'Correct Answer:' line whose
\* k-th option ends in '*'
StarInputs ==
    UNION {{[kind |-> "star", question |-> qtext, options |-> opts, star |-> k,
             text |-> "Question 1: " \o qtext \o "\n"
                          \o OptionLines([i \in 1..Len(opts) |->
                                             IF i = k THEN opts[i] \o "*"
                                             ELSE opts[i]], 1)] :
               qtext \in QuestionTexts,
               opts \in [1..n -> OptionTexts \ {"Correct answer: b"}],
               k \in 1..n} : n \in 2..4}

\* question blocks by shape: complete, with one option, without an answer
\* line, with an answer letter beyond the options, with an empty option
\* text, with five option lines of which two repeat a letter and a text
BlockPool ==
    [good    |-> "Question 1: Q1\na) opt1\nb) opt2\nCorrect Answer: b\n",
     one     |-> "Question 2: Q2\na) opt1\nCorrect Answer: a\n",
     noans   |-> "Question 3: Q3\na) opt1\nb) opt2\n",
     beyond  |-> "Question 4: Q4\na) opt1\nb) opt2\nCorrect Answer: c\n",
     blank   |-> "Question 5: Q5\na)1\nb) opt2\nCorrect Answer: a\n",
     five    |-> "Question 6: Q6\na) o1\nb) o2\nc) o3\nd) o4\na) o1\nCorrect Answer: a\n"]

\* the texts of up to MaxBlocks blocks of BlockPool, joined as generate_test
\* joins its questions
BlocksInputs ==
    UNION {{[kind |-> "blocks", shapes |-> bs,
             text |-> Join([i \in 1..n |-> BlockPool[bs[i]]], "\n")] :
               bs \in [1..n -> DOMAIN BlockPool]} : n \in 1..MaxBlocks}

\* no call of parse_test_output has returned yet
PtPending == [called |-> FALSE, raised |-> FALSE, questions |-> <<>>]

\* no call of generate_test has returned yet
GtPending ==
    [called |-> FALSE, skills |-> <<>>, questions |-> <<>>, requests |-> <<>>,
     saved |-> FALSE, raised |-> FALSE, text |-> ""]

\* generate_test is not in use
GtIdle == gt_in = [kind |-> "none"] /\ gt_result = GtPending

\* parse_test_output is not in use
PtIdle == pt_src = [kind |-> "none"] /\ pt_text = "" /\ pt_result = PtPending

PtInit ==
    /\ pt_src \in FreeInputs \cup BlockInputs \cup StarInputs \cup BlocksInputs
    /\ pt_text = pt_src.text
    /\ pt_result = PtPending
    /\ GtIdle
    /\ AppIdle

\* the call parse_test_output(pt_text)
ParseTestOutput ==
    /\ ~pt_result.called
    /\ pt_result' = [called |-> TRUE] @@ parse_test_output(pt_text)
    /\ UNCHANGED <<pt_src, pt_text, gt_vars, app_vars>>

PtNext == ParseTestOutput

SpecParse == PtInit /\ [][PtNext]_vars

(***************************************************************************)
(* Properties of parse_test_output                                          *)
(***************************************************************************)
\* the questions the call returned
PtQuestions == pt_result.questions

\* the call returned normally
PtReturned == pt_result.called /\ ~pt_result.raised

\* C1: every returned question has a correct_answer, and it is one of the
\* question's own options
C1_CorrectAnswerAmongOptions ==
    PtReturned =>
        \A i \in 1..Len(PtQuestions) :
            /\ PtQuestions[i].correct_answer # None
            /\ \E j \in 1..Len(PtQuestions[i].options) :
                   PtQuestions[i].options[j] = Val(PtQuestions[i].correct_answer)

\* C2: no block with exactly one option line is returned; a returned
\* question has one option per option line of its block, so no returned
\* question has exactly one option
C2_NoSingleOptionQuestion ==
    PtReturned => \A i \in 1..Len(PtQuestions) : Len(PtQuestions[i].options) # 1

\* C3: parse_test_output never raises
C3_NeverRaises == ~pt_result.raised

\* C4: a well-formed block gives exactly one question, with the four option
\* texts in order and the text of the option the letter names as
\* correct_answer
C4_WellFormedBlockParsed ==
    (pt_result.called /\ pt_src.kind = "block") =>
        /\ ~pt_result.raised
        /\ Len(PtQuestions) = 1
        /\ PtQuestions[1].options = pt_src.options
        /\ PtQuestions[1].correct_answer =
               Some(pt_src.options[LetterPosition[pt_src.letter]])

\* a well-formed block with four distinct options and the letter 'c' was parsed
C4_Witness ==
    /\ pt_result.called
    /\ pt_src.kind = "block"
    /\ pt_src.letter = "c"
    /\ pt_src.options = <<"opt1", "Correct answer: b", "x", "opt2">>
    /\ Len(PtQuestions) = 1
    /\ PtQuestions[1].correct_answer = Some("x")

\* C5: a block without a 'Correct Answer:' line and with one option ending
\* in '*' is returned with that option, the '*' stripped, as correct_answer
C5_StarMarksCorrect ==
    (pt_result.called /\ pt_src.kind = "star") =>
        /\ ~pt_result.raised
        /\ Len(PtQuestions) = 1
        /\ PtQuestions[1].options = pt_src.options
        /\ PtQuestions[1].correct_answer = Some(pt_src.options[pt_src.star])

\* C23: the text of an option line is everything after its 2-character
\* marker (a letter of a-d, then '.' or ')') with surrounding whitespace
\* trimmed, whether or not a space follows the marker: 'a)opt1' and 'a) opt1'
\* both store 'opt1', so every stored option is such a text of a line
C23_OptionIsTextAfterMarker ==
    (PtReturned /\ pt_src.kind = "free") =>
        \A i \in 1..Len(PtQuestions) :
            \A j \in 1..Len(PtQuestions[i].options) :
                \E k \in 1..Len(pt_src.lines) :
                    /\ Contains("abcd", LowerCh(Ch(pt_src.lines[k], 1)))
                    /\ Contains(".)", Ch(pt_src.lines[k], 2))
                    /\ PtQuestions[i].options[j] = Strip(From(pt_src.lines[k], 3))

\* C24: every question parse_test_output returns has between 2 and 4
\* options, all distinct, also when the text repeats an option letter or
\* lists more than four option lines under one question
C24_TwoToFourDistinctOptions ==
    PtReturned =>
        \A i \in 1..Len(PtQuestions) :
            /\ 2 <= Len(PtQuestions[i].options)
            /\ Len(PtQuestions[i].options) <= 4
            /\ \A j, k \in 1..Len(PtQuestions[i].options) :
                   PtQuestions[i].options[j] = PtQuestions[i].options[k] => j = k

(***************************************************************************)
(* Calls of generate_test on bounded skill lists                            *)
(***************************************************************************)
\* longest skill list passed to generate_test
MaxSkills == 2

\* skill names passed to generate_test
SkillPool == {"python", "c++"}

\* contents of data/normalized_skills.json left by an earlier run (empty
\* when the file is missing or unreadable)
NormalizedFiles == {<<>>, <<"sql">>}

\* the calls of generate_test: a skill list and the world it runs in; the
\* responses with ':' markers and with an empty option text are drawn for
\* the first request only
GtInputs ==
    UNION {{[kind |-> "call", skills |-> sk, env |-> env] :
               sk \in [1..n -> SkillPool],
               env \in GenEnvs(IF n = 0 THEN 1 ELSE n,
                               {calls \in [1..(IF n = 0 THEN 1 ELSE n) ->
                                              CallOutcomes(FailureKinds,
                                                           {"good", "three", "twolet",
                                                            "colon", "blank"})] :
                                   \A i \in 2..n :
                                       calls[i].text \notin {Responses.colon,
                                                             Responses.blank}},
                               BOOLEAN,
                               IF n = 0 THEN NormalizedFiles ELSE {<<>>})} :
           n \in 0..MaxSkills}
    \cup
    \* Ollama down, one skill: every template under every shuffle
    {[kind |-> "call", skills |-> <<sk>>,
      env |-> [available |-> FALSE, calls |-> <<[kind |-> "none", text |-> ""]>>,
               rnd |-> <<[template |-> t, perm |-> perm]>>,
               save_ok |-> TRUE, normalized_file |-> <<>>]] :
        sk \in SkillPool, t \in 1..NumTemplates, perm \in Shuffles}

GtInit ==
    /\ gt_in \in GtInputs
    /\ gt_result = GtPending
    /\ PtIdle
    /\ AppIdle

\* the call generate_test(gt_in.skills, "Professional Skills")
GenerateTest ==
    /\ ~gt_result.called
    /\ gt_result' = [called |-> TRUE] @@ generate_test(gt_in.skills, gt_in.env)
    /\ UNCHANGED <<gt_in, pt_vars, app_vars>>

GtNext == GenerateTest

SpecGen == GtInit /\ [][GtNext]_vars

(***************************************************************************)
(* Properties of generate_test                                              *)
(***************************************************************************)
\* q is a template question for skill: some template under some shuffle
IsFallbackFor(q, skill) ==
    \E t \in 1..NumTemplates :
        /\ q.question = TemplatePrefix[t] \o Upper(skill) \o TemplateSuffix[t]
        /\ \E perm \in Shuffles : q = generate_fallback_question(skill, t, perm)

C7_FailureGivesFallback ==
    gt_result.called =>
        /\ ~gt_result.raised
        /\ \A i \in 1..Len(gt_result.skills) :
               (/\ gt_in.env.available
                /\ \/ gt_in.env.calls[i].kind \in FailureKinds
                   \/ /\ gt_in.env.calls[i].kind = "ok"
                      /\ gt_in.env.calls[i].text
                             \in {Responses.three, Responses.twolet}) =>
                   /\ i <= Len(gt_result.questions)
                   /\ IsFallbackFor(gt_result.questions[i], gt_result.skills[i])

\* one request was answered with three options only, the other was refused
C7_Witness ==
    /\ gt_result.called
    /\ gt_in.env.available
    /\ Len(gt_in.skills) = 2
    /\ gt_in.env.calls[1] = [kind |-> "ok", text |-> Responses.three]
    /\ gt_in.env.calls[2].kind = "connection_error"
    /\ IsFallbackFor(gt_result.questions[1], gt_in.skills[1])
    /\ IsFallbackFor(gt_result.questions[2], gt_in.skills[2])

\* C18: when save_test_data raises, generate_test does not raise and returns
\* the formatted text of all generated questions, the same text as when
\* test.json is written
C18_SaveFailureKeepsText ==
    (gt_result.called /\ ~gt_in.env.save_ok /\ gt_result.questions # <<>>) =>
        /\ ~gt_result.raised
        /\ ~gt_result.saved
        /\ gt_result.text =
               Join([i \in 1..Len(gt_result.questions) |->
                        FormatQuestion(i, gt_result.questions[i])], "\n")
        /\ gt_result.text =
               generate_test(gt_in.skills,
                             [gt_in.env EXCEPT !.save_ok = TRUE]).text

\* test.json not writable, two questions generated, the first from Ollama
C18_Witness ==
    /\ gt_result.called
    /\ ~gt_in.env.save_ok
    /\ gt_in.env.available
    /\ gt_in.env.calls[1] = [kind |-> "ok", text |-> Responses.good]
    /\ Len(gt_result.questions) = 2
    /\ ~gt_result.saved
    /\ Contains(gt_result.text, "Question 2: ")

\* C21: generate_test called with an empty skill sequence builds no question
\* and returns the no-skills message without raising, whatever an earlier
\* run left in data/normalized_skills.json
C21_EmptySkillsGiveNoQuestions ==
    (gt_result.called /\ gt_in.skills = <<>>) =>
        /\ ~gt_result.raised
        /\ gt_result.questions = <<>>
        /\ gt_result.requests = <<>>
        /\ gt_result.text = NoSkillsMessage

\* C22: for every template and every shuffle outcome, the fallback question
\* has 4 distinct options, the template's options in the shuffled order, and
\* its correct-answer letter names the position after the shuffle of the
\* option text the template designates as correct
C22_FallbackLetterFollowsShuffle ==
    (gt_result.called /\ ~gt_in.env.available) =>
        \A i \in 1..Len(gt_result.questions) :
            LET q == gt_result.questions[i]
                t == gt_in.env.rnd[i].template
            IN  /\ Len(q.options) = 4
                /\ \A j, k \in 1..4 : q.options[j] = q.options[k] => j = k
                /\ q.options = [j \in 1..4 |-> TemplateOptions[t][gt_in.env.rnd[i].perm[j]]]
                /\ q.correct_answer \in {"a", "b", "c", "d"}
                /\ q.options[LetterIndex(q.correct_answer) + 1] =
                       TemplateOptions[t][TemplateCorrect[t] + 1]

\* the third template under a shuffle that moves its correct option to 'c'
C22_Witness ==
    /\ gt_result.called
    /\ ~gt_in.env.available
    /\ gt_in.env.rnd[1] = [template |-> 3, perm |-> <<2, 3, 1, 4>>]
    /\ Len(gt_result.questions) = 1
    /\ gt_result.questions[1].options[3] = "Improved code maintainability"
    /\ gt_result.questions[1].correct_answer = "c"

\* C25: the fallback questions are deterministic: with the generator failing
\* for every skill, a second run of generate_test over the same skills, under
\* any other outcome of the random module, builds the same questions (text,
\* option order and correct-answer letter)
C25_FallbackDeterministic ==
    (/\ gt_result.called
     /\ gt_in.skills # <<>>
     /\ \/ ~gt_in.env.available
        \/ \A i \in 1..Len(gt_in.skills) : gt_in.env.calls[i].kind \in FailureKinds) =>
        \A t0 \in 1..NumTemplates :
            gt_result.questions =
                generate_test(gt_in.skills,
                              [gt_in.env EXCEPT
                                   !.rnd = RandomStream(t0, Len(gt_in.skills))]).questions

\* C26: every question generate_test builds, parsed from a response or taken
\* from a template, has a non-empty question text, exactly 4 options and as
\* correct_answer a single letter of a-d that indexes one of the options;
\* parse_ollama_response returns None, and does not raise, for a response
\* that does not give such a question
C26_BuiltQuestionsWellFormed ==
    gt_result.called =>
        /\ ~gt_result.raised
        /\ \A i \in 1..Len(gt_result.questions) :
               LET q == gt_result.questions[i]
               IN  /\ q.question # ""
                   /\ Len(q.options) = 4
                   /\ q.correct_answer \in {"a", "b", "c", "d"}
                   /\ LetterIndex(q.correct_answer) < Len(q.options)
        /\ \A i \in 1..Len(gt_result.skills) :
               (gt_in.env.available /\ gt_in.env.calls[i].kind = "ok") =>
                   LET p == parse_ollama_response(Strip(gt_in.env.calls[i].text),
                                                  gt_result.skills[i])
                   IN  \/ p = None
                       \/ /\ Val(p).question # ""
                          /\ Len(Val(p).options) = 4
                          /\ Val(p).correct_answer \in {"a", "b", "c", "d"}
                          /\ gt_result.questions[i] = Val(p)

\* one response with ':' markers and the answer 'D' was accepted, one with
\* three options was replaced by a template question
C26_Witness ==
    /\ gt_result.called
    /\ gt_in.env.available
    /\ Len(gt_in.skills) = 2
    /\ gt_in.env.calls[1] = [kind |-> "ok", text |-> Responses.colon]
    /\ gt_in.env.calls[2] = [kind |-> "ok", text |-> Responses.three]
    /\ gt_result.questions[1].question = "Which one?"
    /\ gt_result.questions[1].correct_answer = "d"
    /\ IsFallbackFor(gt_result.questions[2], gt_in.skills[2])

\* C27: generate-then-parse round trip: parse_test_output applied to the text
\* generate_test returns gives as many questions as generate_test built, in
\* the same order, each with the same question text and option texts and
\* with correct_answer the option text at the generator's letter
C27_GenerateParseRoundTrip ==
    (gt_result.called /\ gt_result.questions # <<>>) =>
        \E p \in {parse_test_output(gt_result.text)} :
            /\ ~p.raised
            /\ Len(p.questions) = Len(gt_result.questions)
            /\ \A i \in 1..Len(p.questions) :
                   i <= Len(gt_result.questions) =>
                       LET q == gt_result.questions[i]
                       IN  /\ p.questions[i].question = q.question
                           /\ p.questions[i].options = q.options
                           /\ p.questions[i].correct_answer =
                                  Some(q.options[LetterIndex(q.correct_answer) + 1])

(***************************************************************************)
(* generate_test statement by statement: the loop over the skills           *)
(***************************************************************************)
\* most requests the model follows for one skill
MaxRequests == 3

\* lines 306-309 and 297: the question is appended and the loop goes on to
\* the next skill
AppendQuestion(st, q) ==
    [st EXCEPT !.questions = Append(@, q), !.i = @ + 1, !.pc = "loop"]

\* the template question of the skill the loop is at
FallbackHere(st, env) ==
    generate_fallback_question(st.skills[st.i], env.rnd[st.i].template,
                               env.rnd[st.i].perm)

\* lines 105-119: the request returned 200 with a text that
\* parse_ollama_response accepts
RequestSucceeded(st, env, parsed) ==
    /\ env.calls[st.i].kind = "ok"
    /\ parsed[st.i] # None

\* the failed request is posted again
AfterFailure_Retry(st, env) ==
    [st EXCEPT !.pc = "request"]

\* lines 120-136: a rejected response, a status other than 200 or an
\* exception of the request returns generate_fallback_question
AfterFailure(st, env) ==
    AppendQuestion(st, FallbackHere(st, env))

\* the calls of generate_test followed through the loop: a request times
\* out, is refused, or is answered with a good or a three-option text;
\* parsed is what parse_ollama_response returns at line 114 for the reply
\* to the request for each skill (None where the request gives no reply)
LoopInputs ==
    UNION {{[kind |-> "call", skills |-> sk, env |-> env,
             parsed |->
                 [k \in 1..Len(IF sk # <<>> THEN sk ELSE env.normalized_file) |->
                     IF env.available /\ env.calls[k].kind = "ok"
                     THEN parse_ollama_response(
                              Strip(env.calls[k].text),
                              (IF sk # <<>> THEN sk ELSE env.normalized_file)[k])
                     ELSE None]] :
               sk \in [1..n -> SkillPool],
               env \in GenEnvs(IF n = 0 THEN 1 ELSE n,
                               [1..(IF n = 0 THEN 1 ELSE n) ->
                                   CallOutcomes({"timeout", "connection_error"},
                                                {"good", "three"})],
                               BOOLEAN,
                               IF n = 0 THEN NormalizedFiles ELSE {<<>>})} :
           n \in 0..MaxSkills}

\* generate_test has not been entered; pc is the statement it is at, i the
\* 1-based number of the skill the loop is at, requests[k] the number of
\* requests posted for the k-th skill
LoopInit ==
    /\ gt_in \in LoopInputs
    /\ gt_result = [pc |-> "idle", skills |-> <<>>, i |-> 1, questions |-> <<>>,
                    requests |-> <<>>, text |-> ""]
    /\ PtIdle
    /\ AppIdle

\* lines 270-296: generate_test(gt_in.skills, "Professional Skills") is
\* entered and runs up to the loop
EnterGenerateTest ==
    /\ gt_result.pc = "idle"
    /\ \E effective \in {IF gt_in.skills # <<>> THEN gt_in.skills
                         ELSE gt_in.env.normalized_file} :
           gt_result' =
               [pc |-> IF effective = <<>> THEN "done" ELSE "loop",
                skills |-> effective,
                i |-> 1,
                questions |-> <<>>,
                requests |-> [k \in 1..Len(effective) |-> 0],
                text |-> IF effective = <<>> THEN NoSkillsMessage ELSE ""]
    /\ UNCHANGED <<gt_in, pt_vars, app_vars>>

\* lines 297-305: the for statement takes the next skill: it enters
\* generate_question_with_ollama when Ollama is available, and appends the
\* template question otherwise
LoopTakeSkill ==
    /\ gt_result.pc = "loop"
    /\ gt_result.i <= Len(gt_result.skills)
    /\ gt_result' = IF gt_in.env.available
                    THEN [gt_result EXCEPT !.pc = "request"]
                    ELSE AppendQuestion(gt_result,
                                        FallbackHere(gt_result, gt_in.env))
    /\ UNCHANGED <<gt_in, pt_vars, app_vars>>

\* line 103: requests.post for the skill the loop is at
LoopPostRequest ==
    /\ gt_result.pc = "request"
    /\ gt_result.requests[gt_result.i] < MaxRequests
    /\ gt_result' = [gt_result EXCEPT !.requests[gt_result.i] = @ + 1,
                                      !.pc = "response"]
    /\ UNCHANGED <<gt_in, pt_vars, app_vars>>

\* lines 105-136: the request returns or raises (at the latest after its
\* timeout of 60 s) and generate_question_with_ollama ends
LoopHandleResponse ==
    /\ gt_result.pc = "response"
    /\ gt_result' = IF RequestSucceeded(gt_result, gt_in.env, gt_in.parsed)
                    THEN AppendQuestion(gt_result,
                                        Val(gt_in.parsed[gt_result.i]))
                    ELSE AfterFailure(gt_result, gt_in.env)
    /\ UNCHANGED <<gt_in, pt_vars, app_vars>>

\* lines 324-345: the for statement is exhausted; the message or the
\* formatted questions are returned
LoopExit ==
    /\ gt_result.pc = "loop"
    /\ gt_result.i > Len(gt_result.skills)
    /\ gt_result' =
           [gt_result EXCEPT
               !.pc = "done",
               !.text = IF gt_result.questions = <<>> THEN NoQuestionsMessage
                        ELSE Join([k \in 1..Len(gt_result.questions) |->
                                      FormatQuestion(k, gt_result.questions[k])],
                                  "\n")]
    /\ UNCHANGED <<gt_in, pt_vars, app_vars>>

LoopNext ==
    \/ EnterGenerateTest
    \/ LoopTakeSkill
    \/ LoopPostRequest
    \/ LoopHandleResponse
    \/ LoopExit

\* the interpreter keeps executing the statements of generate_test
SpecGenLoop == LoopInit /\ [][LoopNext]_vars /\ WF_vars(LoopNext)

\* C20: generate_test posts at most one request per skill; after a failed
\* request its next step appends the template question of that skill and
\* moves to the next skill; and every call of generate_test ends
C20_OneRequestNoRetryTerminates ==
    /\ [](\A k \in 1..Len(gt_result.requests) : gt_result.requests[k] <= 1)
    /\ [][(/\ gt_result.pc = "response"
            /\ ~RequestSucceeded(gt_result, gt_in.env, gt_in.parsed)) =>
              /\ gt_result'.pc = "loop"
              /\ gt_result'.i = gt_result.i + 1
              /\ gt_result'.requests = gt_result.requests
              /\ gt_result'.questions =
                     Append(gt_result.questions,
                            FallbackHere(gt_result, gt_in.env))]_vars
    /\ <>(gt_result.pc = "done")

\* the call has ended after one request timed out and the next one succeeded
C20_Witness ==
    /\ gt_result.pc = "done"
    /\ gt_in.env.available
    /\ Len(gt_result.skills) = 2
    /\ gt_in.env.calls[1].kind = "timeout"
    /\ gt_in.env.calls[2] = [kind |-> "ok", text |-> Responses.good]
    /\ gt_result.requests = <<1, 1>>
    /\ IsFallbackFor(gt_result.questions[1], gt_result.skills[1])
    /\ gt_result.questions[2].question = "What does X do?"

(***************************************************************************)
(* The form: generate a test, submit the answers                            *)
(***************************************************************************)
\* largest number of entered skills whose every iteration order is tried
MaxPermuted == 2

\* number of answer choices that repeat over the slots of an answer sheet
PatternLen == 2

\* every file of the data directory can be written
AllWritable == [user_skills |-> TRUE, normalized |-> TRUE, profile |-> TRUE,
                test |-> TRUE]

\* the orders in which a set of k strings is enumerated: every order for a
\* small set, the order of entry and its reverse for a larger one
Orders(k) ==
    IF k <= MaxPermuted
    THEN {o \in [1..k -> 1..k] : \A i, j \in 1..k : o[i] = o[j] => i = j}
    ELSE {[i \in 1..k |-> i], [i \in 1..k |-> k + 1 - i]}

\* the outcomes of a generation request tried behind the form
FormOutcomes == CallOutcomes({"timeout"}, {"good", "blank", "error"})

\* the worlds of a request with the given form input: any enumeration order,
\* any generator behaviour (the same outcome for every skill when uniform)
FormWorlds(manual, json, uniform, fss) ==
    LET entered == Dedupe(json \o parse_manual_skills(manual))
        n == Cardinality({Lower(Strip(entered[i])) : i \in 1..Len(entered)}
                             \ {""})
        callseqs == IF uniform THEN {[i \in 1..n |-> o] : o \in FormOutcomes}
                    ELSE [1..n -> FormOutcomes]
    IN  {[kind |-> "form", manual_skills |-> manual, json_skills |-> json,
          resume_skills |-> <<>>, order |-> o, fs |-> fs, gen |-> g] :
            o \in Orders(Len(entered)), fs \in fss,
            g \in GenEnvs(n, callseqs, {TRUE}, {<<>>})}

\* the requests of the form: manual skills with every file writable, among
\* them eleven skills, one more than the form has slots; and a request made
\* while exactly one file of the data directory cannot be written
AppWorlds ==
    UNION {FormWorlds(m, <<>>, FALSE, {AllWritable}) :
              m \in {"", "python", "Python, SQL", "error handling",
                     " py ,Python,python"}}
    \cup FormWorlds("c,go,r,sql,git,css,html,java,rust,bash,perl", <<>>, TRUE,
                    {AllWritable})
    \cup {w \in FormWorlds("python", <<"Docker">>, TRUE,
                           {[AllWritable EXCEPT ![f] = FALSE] :
                               f \in DOMAIN AllWritable}) :
             ~w.gen.available /\ w.gen.rnd[1].template = 1}

AppInit ==
    /\ world \in AppWorlds
    /\ test_state = NewTestState
    /\ ui = EmptyForm
    /\ response = [handler |-> "none", kind |-> "none"]
    /\ PtIdle
    /\ GtIdle

\* the 'Generate Skill Test' button: process_inputs
ProcessInputs ==
    \E r \in {process_inputs(world, test_state)} :
        /\ test_state' = r.test_state
        /\ ui' = r.ui
        /\ response' = r.response
        /\ UNCHANGED <<world, pt_vars, gt_vars>>

\* the value of the radio group of slot i for a choice: nothing, the choice
\* equal to the correct answer, or the first choice that differs from it
Pick(choice, i) ==
    LET options == ui.questions[i].options
        correct == IF i <= Len(test_state.correct_answers)
                   THEN test_state.correct_answers[i] ELSE None
        right == {j \in 1..Len(options) : Some(options[j]) = correct}
        wrong == {j \in 1..Len(options) : Some(options[j]) # correct}
    IN  IF choice = "correct" /\ right # {}
        THEN Some(options[CHOOSE j \in right : \A k \in right : j <= k])
        ELSE IF choice = "wrong" /\ wrong # {}
        THEN Some(options[CHOOSE j \in wrong : \A k \in wrong : j <= k])
        ELSE None

\* the values of the ten radio groups when the choices of pattern repeat
\* over the displayed questions; a hidden group has no value
Sheet(pattern) ==
    [i \in 1..NumSlots |->
        IF i <= Len(ui.questions)
        THEN Pick(pattern[((i - 1) % PatternLen) + 1], i)
        ELSE None]

\* the 'Submit Test' button: calculate_score on the ten radio groups, in
\* each of which the user has selected nothing, the correct choice or a
\* wrong one
CalculateScore ==
    /\ ui.submit_visible
    /\ \E pattern \in [1..PatternLen -> {"none", "correct", "wrong"}] :
           response' = calculate_score(Sheet(pattern), test_state)
    /\ UNCHANGED <<world, test_state, ui, pt_vars, gt_vars>>

AppNext == ProcessInputs \/ CalculateScore

SpecApp == AppInit /\ [][AppNext]_vars

(***************************************************************************)
(* Properties of the form handlers                                          *)
(***************************************************************************)
\* C8: when at least one skill was extracted and every intermediate file is
\* writable, process_inputs ends by presenting a generated test
C8_TestAlwaysPresented ==
    (/\ response.handler = "process_inputs"
     /\ HandlerProcessInputs(world).skills # <<>>
     /\ world.fs = AllWritable)
        => response.kind = "generated"

\* C9: calculate_score does not fail, and a slot without a selected option
\* is counted as incorrect
C9_UnansweredIsIncorrect ==
    response.handler = "calculate_score" =>
        /\ response.kind = "score"
        /\ \A i \in 1..Len(response.results) :
               response.results[i].user_answer = None
                   => ~response.results[i].is_correct

\* C10: for a test set of any length, total is the number of questions;
\* when every answer is the correct one the score is total out of total and
\* 100%; when no answer matches it is 0%
C10_ScoreOfAllAndNone ==
    (response.handler = "calculate_score" /\ response.kind = "score") =>
        /\ response.total = Len(test_state.questions)
        /\ (\A i \in 1..Len(response.results) :
                response.results[i].user_answer
                    = test_state.correct_answers[i]) =>
               /\ response.score = response.total
               /\ response.percentage.num = 100 * response.percentage.den
        /\ (\A i \in 1..Len(response.results) :
                response.results[i].user_answer
                    # test_state.correct_answers[i]) =>
               response.percentage.num = 0

TermWorldsFor(skills_input, uniform) ==
    LET n == Len(TerminalSkills(skills_input))
        callseqs == IF uniform THEN {[i \in 1..n |-> o] : o \in FormOutcomes}
                    ELSE [1..n -> FormOutcomes]
    IN  {[kind |-> "terminal", skills_input |-> skills_input, gen |-> g] :
            g \in GenEnvs(n, callseqs, {TRUE}, {<<>>})}

TermInit ==
    /\ world \in TermWorldsFor("python", FALSE)
                     \cup TermWorldsFor(" Python ,SQL", FALSE)
                     \cup {w \in TermWorldsFor("", TRUE) :
                              w.gen.rnd[1].template = 1}
    /\ test_state = NewTestState
    /\ ui = EmptyForm
    /\ response = [handler |-> "none", kind |-> "none"]
    /\ PtIdle
    /\ GtIdle

\* the 'Start Terminal Test' button: start_terminal_test
StartTerminalTest ==
    \E r \in {start_terminal_test(world.skills_input, world.gen, test_state)} :
        /\ test_state' = r.test_state
        /\ response' = r.response
        /\ UNCHANGED <<world, ui, pt_vars, gt_vars>>

\* a text is typed into the answer box and submitted:
\* process_terminal_answer
ProcessTerminalAnswer ==
    \E answer \in {"a", " B ", "d", "x"} :
        \E r \in {process_terminal_answer(answer, test_state)} :
            /\ test_state' = r.test_state
            /\ response' = r.response
            /\ UNCHANGED <<world, ui, pt_vars, gt_vars>>

\* the 'Submit Test' event of the form while the form shows no question:
\* calculate_score on ten radio groups without a value
SubmitEmptyForm ==
    /\ ui.questions = <<>>
    /\ response' = calculate_score([i \in 1..NumSlots |-> None], test_state)
    /\ UNCHANGED <<world, test_state, ui, pt_vars, gt_vars>>

TermNext == StartTerminalTest \/ ProcessTerminalAnswer \/ SubmitEmptyForm

SpecTerm == TermInit /\ [][TermNext]_vars

(***************************************************************************)
(* Properties of the scorers on an empty test set                           *)
(***************************************************************************)
\* C11: a scorer that runs while the current test set is empty (total = 0)
\* reports 0% and does not fail, the form scorer (calculate_score) and the
\* terminal scorer (process_terminal_answer, show_results) alike
C11_EmptyTestScoresZero ==
    (/\ Len(test_state.questions) = 0
     /\ response.handler \in {"calculate_score", "process_terminal_answer"})
        => /\ response.kind \in {"score", "results"}
           /\ response.percentage.num = 0

\* C29: in the terminal-style test, after any sequence of start and answer
\* events, 0 <= score <= current_question <= number of questions, there are
\* current_question recorded user answers, and score is the number of
\* recorded answers equal to the correct_answer of their question
C29_TerminalCounters ==
    /\ 0 <= test_state.score
    /\ test_state.score <= test_state.current_question
    /\ test_state.current_question <= Len(test_state.questions)
    /\ Len(test_state.user_answers) = test_state.current_question
    /\ test_state.score =
           Cardinality({i \in 1..Len(test_state.user_answers) :
                            test_state.user_answers[i]
                                = test_state.questions[i].correct_answer})

\* both questions of a test answered, one of them correctly
C29_Witness ==
    /\ response.handler = "process_terminal_answer"
    /\ response.kind = "results"
    /\ Len(test_state.questions) = 2
    /\ test_state.current_question = 2
    /\ test_state.score = 1
    /\ test_state.user_answers[1] # test_state.questions[1].correct_answer
    /\ test_state.user_answers[2] = test_state.questions[2].correct_answer

\* C30: a terminal-style test started with n questions shows its results
\* exactly after the n-th valid answer: a valid answer (a-d) typed while a
\* question is open advances current_question by one and is followed by the
\* next question in order, or after the last question by the results with
\* the score out of n; results are shown at no other time
C30_ResultsAfterLastAnswer ==
    [][(/\ response'.handler = "process_terminal_answer"
        /\ test_state.current_question < Len(test_state.questions)) =>
           /\ response'.kind \in {"invalid", "question", "results"}
           /\ response'.kind = "invalid" => test_state' = test_state
           /\ response'.kind # "invalid" =>
                  /\ test_state'.questions = test_state.questions
                  /\ test_state'.current_question = test_state.current_question + 1
                  /\ IF test_state'.current_question = Len(test_state.questions)
                     THEN /\ response'.kind = "results"
                          /\ response'.score = test_state'.score
                          /\ response'.total = Len(test_state.questions)
                     ELSE /\ response'.kind = "question"
                          /\ response'.number = test_state'.current_question + 1
                          /\ response'.question =
                                 test_state.questions[response'.number].question]_vars

\* C31: process_terminal_answer never raises: a letter that names no option
\* of the current question, an answer submitted before any test was started
\* and an answer submitted after the last question was answered are all
\* answered with a message
C31_TerminalAnswerNeverRaises ==
    response.handler = "process_terminal_answer" =>
        response.kind \in {"question", "results", "invalid"}

\* C32: an invalid terminal answer (anything but a, b, c or d after trimming
\* and lowercasing) leaves current_question, score, the recorded answers and
\* the questions as they are, and while a question is open the answer is
\* refused with the input left open for the same question
C32_InvalidAnswerChangesNothing ==
    \A answer \in {"x", "", " E ", "ab", "1", "a)"} :
        \E r \in {process_terminal_answer(answer, test_state)} :
            /\ r.test_state = test_state
            /\ test_state.current_question < Len(test_state.questions) =>
                   /\ r.response.kind = "invalid"
                   /\ r.response.input_visible

\* an invalid answer was typed at the second of two questions
C32_Witness ==
    /\ response.handler = "process_terminal_answer"
    /\ response.kind = "invalid"
    /\ Len(test_state.questions) = 2
    /\ test_state.current_question = 1
    /\ Len(test_state.user_answers) = 1

(***************************************************************************)
(* The form and the terminal-style test served by one process: both use the *)
(* module-level test_state of app.py line 24                                *)
(***************************************************************************)
\* a form filled with one skill beside a terminal test over two, and a form
\* filled with two skills beside a terminal test over one; each generation
\* request times out or is answered well
SharedInit ==
    /\ world \in
           {[kind |-> "shared", manual_skills |-> p.manual, json_skills |-> <<>>,
             resume_skills |-> <<>>, order |-> o, fs |-> AllWritable, gen |-> g,
             skills_input |-> p.terminal] :
               p \in {[manual |-> "python", terminal |-> " Python ,SQL"],
                      [manual |-> "Python, SQL", terminal |-> "python"]},
               o \in {<<1>>, <<1, 2>>, <<2, 1>>},
               g \in GenEnvs(2, [1..2 -> CallOutcomes({"timeout"}, {"good"})],
                             {TRUE}, {<<>>})}
    /\ Len(world.order) = Len(parse_manual_skills(world.manual_skills))
    /\ test_state = NewTestState
    /\ ui = EmptyForm
    /\ response = [handler |-> "none", kind |-> "none"]
    /\ PtIdle
    /\ GtIdle

\* the events of both tabs, each handler running to its end before the next
SharedNext ==
    \/ ProcessInputs
    \/ CalculateScore
    \/ StartTerminalTest
    \/ ProcessTerminalAnswer

SpecShared == SharedInit /\ [][SharedNext]_vars

\* C28: the form scorer grades against the test set the generate request
\* displayed: after any interleaving of 'Generate Skill Test', 'Start
\* Terminal Test', terminal-answer and 'Submit Test' events, calculate_score
\* compares the answer of each slot with the correct answer of the question
\* shown in that slot; and a terminal test in progress keeps the questions
\* it was started with until a terminal test is started again
C28_ScorerGradesDisplayedTest ==
    /\ []((response.handler = "calculate_score" /\ ui.submit_visible) =>
              /\ response.kind = "score"
              /\ response.total = Len(ui.questions)
              /\ Len(response.results) = Len(ui.questions)
              /\ \A i \in 1..Len(response.results) :
                     response.results[i].correct_answer =
                         process_inputs(world, NewTestState)
                             .test_state.correct_answers[i])
    /\ [][(/\ test_state.element_type = "dict"
           /\ test_state.current_question < Len(test_state.questions)
           /\ response'.handler # "start_terminal_test") =>
              /\ test_state'.element_type = "dict"
              /\ test_state'.questions = test_state.questions]_vars

(***************************************************************************)
(* Calls of the skill normalizers and of the resume matcher                 *)
(***************************************************************************)
\* longest list of raw skills
MaxRaw == 3

\* longest master vocabulary of a resume match
MaxVocab == 2

\* the calls of normalize_skills: raw tokens that are spellings of
\* vocabulary entries, an alias key or an unknown name; the contents of
\* skills_master.json (None when the file cannot be read); the threshold
NormalizeWorlds ==
    {[kind |-> "normalize", raw_skills |-> raw, master |-> m,
      threshold |-> t, fs |-> AllWritable] :
        raw \in UNION {[1..n -> {"Python", "PYTHON", "py", "sql", "cobol"}] :
                       n \in 0..MaxRaw},
        m \in {None, Some(<<>>), Some(<<"Python", "SQL">>),
               Some(<<"SQL", "python", "Python">>)},
        t \in {0, 85, 101}}

\* the resumes: the extension of the file, the text its extractor returns
\* (the empty text is a failed extraction), the master skills of the handler
ResumeWorlds ==
    {[kind |-> "resume", resume |-> Some([ext |-> e, text |-> t]),
      skills |-> v] :
        e \in {".pdf", ".docx", ".txt"},
        t \in {"", "SQL", "I use python.", "mysql and Go", "Pyhton", "golang",
               "pitons"},
        v \in UNION {{o \in [1..n -> {"Python", "SQL", "Go"}] :
                         \A i, j \in 1..n : o[i] = o[j] => i = j} :
                     n \in 0..MaxVocab}}

SkillsInit ==
    /\ world \in NormalizeWorlds \cup ResumeWorlds
    /\ test_state = NewTestState
    /\ ui = EmptyForm
    /\ response = [handler |-> "none", kind |-> "none"]
    /\ PtIdle
    /\ GtIdle

\* python -m modules.skill_normalizer: normalize_skills(threshold)
NormalizeSkills ==
    /\ world.kind = "normalize"
    /\ response.handler = "none"
    /\ \E r \in {normalize_skills(world.raw_skills, world.master,
                                  world.threshold)} :
           response' = [handler |-> "normalize_skills",
                        kind |-> IF r.raised = "" THEN "returned" ELSE "raised",
                        raised |-> r.raised, skills |-> r.skills,
                        emitted |-> r.emitted, fuzzy_calls |-> r.fuzzy_calls]
    /\ UNCHANGED <<world, test_state, ui, pt_vars, gt_vars>>

\* the normalization step of the app pipeline: app.py save_normalized_skills
SaveNormalizedSkills ==
    /\ world.kind = "normalize"
    /\ response.handler = "none"
    /\ response' = [handler |-> "save_normalized_skills", kind |-> "returned",
                    skills |-> save_normalized_skills(world.raw_skills, world)]
    /\ UNCHANGED <<world, test_state, ui, pt_vars, gt_vars>>

\* extract_skills_from_text on the text of the resume
ExtractSkillsFromText ==
    /\ world.kind = "resume"
    /\ response.handler = "none"
    /\ response' = [handler |-> "extract_skills_from_text", kind |-> "returned",
                    skills |-> extract_skills_from_text(Val(world.resume).text,
                                                        world.skills)]
    /\ UNCHANGED <<world, test_state, ui, pt_vars, gt_vars>>

\* process_resume on the resume file
ProcessResume ==
    /\ world.kind = "resume"
    /\ response.handler = "none"
    /\ response' = [handler |-> "process_resume", kind |-> "returned",
                    skills |-> process_resume(world.resume, world.skills)]
    /\ UNCHANGED <<world, test_state, ui, pt_vars, gt_vars>>

SkillsNext ==
    NormalizeSkills \/ SaveNormalizedSkills \/ ExtractSkillsFromText
        \/ ProcessResume

SpecSkills == SkillsInit /\ [][SkillsNext]_vars

(***************************************************************************)
(* Properties of the skill normalizers and of the resume matcher            *)
(***************************************************************************)
\* C12: the list normalize_skills returns has no duplicate name and lists
\* the emitted names in the order of their first emission
C12_NoDuplicatesFirstSeenOrder ==
    (response.handler = "normalize_skills" /\ response.kind = "returned") =>
        /\ \A i, j \in 1..Len(response.skills) :
               response.skills[i] = response.skills[j] => i = j
        /\ response.skills = Dedupe(response.emitted)

\* C13: for every threshold and every master vocabulary, a raw token whose
\* lowercase form is an alias key is normalized to the alias target, and no
\* fuzzy match is made for it
C13_AliasResolvedWithoutFuzzyMatch ==
    (response.handler = "normalize_skills" /\ world.master # None) =>
        \A i \in 1..Len(world.raw_skills) :
            Lower(world.raw_skills[i]) \in DOMAIN ALIASES =>
                /\ response.kind = "returned"
                /\ ALIASES[Lower(world.raw_skills[i])] \in Range(response.skills)
                /\ response.fuzzy_calls[i] = 0

\* C14: when the master vocabulary cannot be read or is empty,
\* normalize_skills returns the empty list and does not raise
C14_NoVocabularyGivesEmpty ==
    (/\ response.handler = "normalize_skills"
     /\ world.master \in {None, Some(<<>>)})
        => response.kind = "returned" /\ response.skills = <<>>

\* C15: every name a normalization emits is in canonical casing (an alias
\* target, or an entry of the master vocabulary as spelled there), in
\* normalize_skills and in the normalization step of the app pipeline
C15_CanonicalCasing ==
    (/\ response.handler \in {"normalize_skills", "save_normalized_skills"}
     /\ response.kind = "returned")
        => \A name \in Range(response.skills) :
               \/ \E k \in DOMAIN ALIASES : name = ALIASES[k]
               \/ /\ world.master # None
                  /\ name \in Range(Val(world.master))

\* C16: extract_skills_from_text returns every vocabulary entry that the
\* text contains as a contiguous substring, and only entries of the
\* vocabulary
C16_SubstringEntryFound ==
    response.handler = "extract_skills_from_text" =>
        /\ \A i \in 1..Len(world.skills) :
               Contains(Val(world.resume).text, world.skills[i])
                   => world.skills[i] \in response.skills
        /\ response.skills \subseteq Range(world.skills)

\* a text longer than the entry "Go" it contains, and "Go" found
C16_Witness ==
    /\ response.handler = "extract_skills_from_text"
    /\ Val(world.resume).text = "mysql and Go"
    /\ "Go" \in Range(world.skills)
    /\ "Go" \in response.skills

\* C17: extract_skills_from_text returns nothing for an empty text or an
\* empty vocabulary, and process_resume returns nothing for a resume whose
\* text extraction gave the empty string
C17_EmptyTextOrVocabularyGivesNothing ==
    /\ (/\ response.handler = "extract_skills_from_text"
        /\ (Val(world.resume).text = "" \/ world.skills = <<>>))
           => response.kind = "returned" /\ response.skills = {}
    /\ (response.handler = "process_resume" /\ Val(world.resume).text = "")
           => response.kind = "returned" /\ response.skills = {}

\* a PDF resume without text matched against a non-empty vocabulary
C17_Witness ==
    /\ response.handler = "process_resume"
    /\ Val(world.resume) = [ext |-> ".pdf", text |-> ""]
    /\ world.skills # <<>>
    /\ response.skills = {}

(***************************************************************************)
(* modules/domain_suggester.py                                              *)
(***************************************************************************)
\* lines 23, 57: the domains returned when nothing was suggested
DefaultDomains == <<"General IT", "Software Development", "IT Operations">>

\* lines 7-14: load_evaluation_results() on data/evaluation_result.json; a
\* missing file and a file that is not JSON give the empty dict; a JSON
\* value is given by its Python type, its truthiness and, for a dict, by
\* what it holds under 'strengths' and 'weak_areas'
load_evaluation_results(file) ==
    IF file.state \in {"missing", "invalid"}
    THEN [type |-> "dict", truthy |-> FALSE,
          strengths |-> "absent", weak_areas |-> "absent"]
    ELSE file.value

\* lines 16-57: generate_domain_suggestions() when the evaluation file is
\* file and subprocess.run ends as run; ', '.join (lines 30-31) raises
\* TypeError on None and on a list of numbers, and the prompt is built
\* before the try block of line 36
generate_domain_suggestions(file, run) ==
    LET eval_data == load_evaluation_results(file)
        lines == StrippedLines(run.stdout)
        domains == SubSeq(lines, 1, IF Len(lines) < 3 THEN Len(lines) ELSE 3)
    IN  IF ~eval_data.truthy
        THEN [kind |-> "returned", domains |-> DefaultDomains]
        ELSE IF eval_data.type # "dict"
        THEN [kind |-> "raised", exception |-> "AttributeError"]
        ELSE IF \/ eval_data.strengths \in {"null", "numbers"}
                \/ eval_data.weak_areas \in {"null", "numbers"}
        THEN [kind |-> "raised", exception |-> "TypeError"]
        ELSE IF run.kind = "ok" /\ run.returncode = 0
        THEN [kind |-> "returned",
              domains |-> IF Len(domains) = 0 THEN <<"General IT", "General IT">>
                          ELSE IF Len(domains) = 1
                          THEN Append(domains, "General IT")
                          ELSE domains]
        ELSE [kind |-> "returned", domains |-> DefaultDomains]

(***************************************************************************)
(* Calls of generate_domain_suggestions                                     *)
(***************************************************************************)
\* most lines the model writes to standard output
MaxOutLines == 4

\* the evaluation file is missing, not JSON, or holds a JSON value: an
\* object (empty, or with its two lists present, absent, null, a string or
\* numbers), an array, a string or a number; 'ollama run' is not installed,
\* times out, or exits with a status and up to MaxOutLines lines of output
DomainInit ==
    /\ world \in
           {[kind |-> "domains", file |-> f, run |-> r] :
               f \in {[state |-> st] : st \in {"missing", "invalid"}}
                     \cup {[state |-> "json",
                            value |-> [type |-> "dict", truthy |-> FALSE,
                                       strengths |-> "absent",
                                       weak_areas |-> "absent"]]}
                     \cup {[state |-> "json",
                            value |-> [type |-> "dict", truthy |-> TRUE,
                                       strengths |-> x, weak_areas |-> y]] :
                              x, y \in {"absent", "strings", "string", "null",
                                        "numbers"}}
                     \cup {[state |-> "json",
                            value |-> [type |-> ty, truthy |-> b,
                                       strengths |-> "absent",
                                       weak_areas |-> "absent"]] :
                              ty \in {"list", "str", "int"}, b \in BOOLEAN},
               r \in {[kind |-> k, returncode |-> 0, stdout |-> ""] :
                         k \in {"not_found", "timeout"}}
                     \cup UNION {{[kind |-> "ok", returncode |-> rc,
                                   stdout |-> Join(ls, "\n")] :
                                     ls \in [1..n -> {"Data Science", "  ",
                                                      " Web Development ",
                                                      "DevOps"}],
                                     rc \in {0, 1}} : n \in 0..MaxOutLines}}
    /\ test_state = NewTestState
    /\ ui = EmptyForm
    /\ response = [handler |-> "none", kind |-> "none"]
    /\ PtIdle
    /\ GtIdle

\* the call generate_domain_suggestions()
GenerateDomainSuggestions ==
    /\ response.handler = "none"
    /\ response' = [handler |-> "generate_domain_suggestions"]
                       @@ generate_domain_suggestions(world.file, world.run)
    /\ UNCHANGED <<world, test_state, ui, pt_vars, gt_vars>>

DomainNext == GenerateDomainSuggestions

SpecDomain == DomainInit /\ [][DomainNext]_vars

\* C33: generate_domain_suggestions always returns 2 or 3 domain names: the
\* first three non-blank output lines, padded to two with 'General IT',
\* when the model ran with status 0, and the three default domains on every
\* failure (no evaluation data, non-zero exit status, timeout, any exception)
C33_TwoOrThreeDomains ==
    response.handler = "generate_domain_suggestions" =>
        /\ response.kind = "returned"
        /\ Len(response.domains) \in {2, 3}
        /\ \A i \in 1..Len(response.domains) : response.domains[i] # ""
        /\ (\/ ~load_evaluation_results(world.file).truthy
            \/ world.run.kind # "ok"
            \/ world.run.returncode # 0) => response.domains = DefaultDomains

====
